---- MODULE Spec2Model ----
(***************************************************************************)
(* Host Orchestrator bootstrap (frontend/src/host_orchestrator/main.go):   *)
(* environment resolution, subsystem construction, route composition and   *)
(* the fail-fast listener supervisor start().                              *)
(*                                                                         *)
(* A Go string is modelled as a sequence of tokens (each token an          *)
(* indivisible run of characters; "/" is always a token of its own), so    *)
(* that concatenation, comparison, path joining and URL parsing are        *)
(* computed and not assumed.  The empty string is << >>.                   *)
(***************************************************************************)
EXTENDS Integers, Sequences, FiniteSets, TLC

\* ------------------------------------------------------------------ bounds
MaxEnvVars == 2        \* environment variables set at once in one run
MaxStarters == 3       \* starters handed to start() by a direct caller
NumCallers == 2        \* concurrent requests calling the interception rule

\* --------------------------------------------------------------- constants
EmptyStr == << >>
DefaultSocketPath == <<"/", "run", "/", "cuttlefish", "/", "operator">>
DefaultHttpPort == <<"1080">>
DefaultTLSCertDir == <<"/", "etc", "/", "cuttlefish-common", "/", "host_orchestrator", "/", "cert">>
DefaultStaticFilesDir == <<"static">>
DefaultInterceptDir == <<"intercept">>
DefaultWebUIUrl == EmptyStr
defaultAndroidBuildURL == <<"https", "://", "androidbuildinternal.googleapis.com">>
defaultCVDBinAndroidBuildID == <<"10796991">>
defaultCVDBinAndroidBuildTarget == <<"aosp_cf_x86_64_phone-trunk_staging-userdebug">>
defaultCVDArtifactsDir == <<"/", "var", "/", "lib", "/", "cuttlefish-common">>

\* The environment keys main reads.
EnvKeys ==
  { "ORCHESTRATOR_SOCKET_PATH", "ORCHESTRATOR_HTTP_PORT", "ORCHESTRATOR_HTTPS_PORT",
    "ORCHESTRATOR_TLS_CERT_DIR", "ORCHESTRATOR_WEBUI_URL", "ORCHESTRATOR_CVD_USER",
    "ORCHESTRATOR_ANDROID_BUILD_URL", "ORCHESTRATOR_CVDBIN_ANDROID_BUILD_ID",
    "ORCHESTRATOR_CVDBIN_ANDROID_BUILD_TARGET", "ORCHESTRATOR_CVD_ARTIFACTS_DIR" }

\* Values the operator may give each key (the empty string is always one).
EnvValues(key) ==
  CASE key = "ORCHESTRATOR_SOCKET_PATH" -> { EmptyStr, <<"/", "tmp", "/", "op.sock">> }
    [] key = "ORCHESTRATOR_HTTP_PORT" -> { EmptyStr, <<"9000">> }
    [] key = "ORCHESTRATOR_HTTPS_PORT" -> { EmptyStr, <<"8443">> }
    [] key = "ORCHESTRATOR_TLS_CERT_DIR" -> { EmptyStr, <<"/", "certs", "/">> }
    [] key = "ORCHESTRATOR_WEBUI_URL" ->
         { EmptyStr, <<"http", "://", "ui.internal">>, <<"http", "://", "[", "::1">> }
    [] key = "ORCHESTRATOR_CVD_USER" -> { EmptyStr, <<"_cvd-executor">> }
    [] key = "ORCHESTRATOR_ANDROID_BUILD_URL" -> { EmptyStr, <<"http", "://", "ab.internal">> }
    [] key = "ORCHESTRATOR_CVDBIN_ANDROID_BUILD_ID" -> { EmptyStr, <<"42">> }
    [] key = "ORCHESTRATOR_CVDBIN_ANDROID_BUILD_TARGET" -> { EmptyStr, <<"aosp_cf_arm64">> }
    [] OTHER -> { EmptyStr, <<"/", "data">>, <<"/", "data", "/">> }

\* os.LookupEnv's answer for an unset key, and for a key set to v.
Unset == [ok |-> FALSE, val |-> EmptyStr]
SetTo(v) == [ok |-> TRUE, val |-> v]

\* A nil pointer, and a pointer to v.
Nil == [isNil |-> TRUE, val |-> EmptyStr]
Ptr(v) == [isNil |-> FALSE, val |-> v]

\* ------------------------------------------------------------ string code
\* fmt.Sprintf("%s%s", a, b)
Sprintf2(a, b) == a \o b

\* strings.Split(s, "/"): the runs of tokens between separators.
RECURSIVE SplitSlash(_)
SplitSlash(s) ==
  IF s = << >> THEN << << >> >>
  ELSE LET rest == SplitSlash(Tail(s))
       IN IF Head(s) = "/" THEN << << >> >> \o rest
          ELSE << <<Head(s)>> \o Head(rest) >> \o Tail(rest)

\* strings.Join(elems, "/")
RECURSIVE JoinSlash(_)
JoinSlash(elems) ==
  IF elems = << >> THEN << >>
  ELSE IF Len(elems) = 1 THEN Head(elems)
  ELSE Head(elems) \o <<"/">> \o JoinSlash(Tail(elems))

\* The component loop of filepath.Clean: drops empty and "." components and
\* resolves "..".
RECURSIVE CleanComponents(_, _, _)
CleanComponents(comps, out, rooted) ==
  IF comps = << >> THEN out
  ELSE LET c == Head(comps)
           rest == Tail(comps)
       IN IF c = << >> \/ c = <<".">> THEN CleanComponents(rest, out, rooted)
          ELSE IF c = <<"..">> THEN
                 IF Len(out) > 0 /\ out[Len(out)] # <<"..">>
                   THEN CleanComponents(rest, SubSeq(out, 1, Len(out) - 1), rooted)
                 ELSE IF rooted THEN CleanComponents(rest, out, rooted)
                 ELSE CleanComponents(rest, Append(out, c), rooted)
          ELSE CleanComponents(rest, Append(out, c), rooted)

\* filepath.Clean (Unix)
Clean(path) ==
  IF path = << >> THEN <<".">>
  ELSE LET rooted == path[1] = "/"
           body == JoinSlash(CleanComponents(SplitSlash(path), << >>, rooted))
       IN IF rooted THEN <<"/">> \o body
          ELSE IF body = << >> THEN <<".">> ELSE body

\* filepath.Join (Unix): leading empty elements are ignored, the rest is
\* joined with the separator and cleaned.
RECURSIVE Join(_)
Join(elems) ==
  IF elems = << >> THEN << >>
  ELSE IF Head(elems) # << >> THEN Clean(JoinSlash(elems))
  ELSE Join(Tail(elems))

\* Position of the first token of s equal to t, or 0.
RECURSIVE IndexOf(_, _, _)
IndexOf(s, t, from) ==
  IF from > Len(s) THEN 0
  ELSE IF s[from] = t THEN from ELSE IndexOf(s, t, from + 1)

Contains(s, t) == IndexOf(s, t, 1) # 0

\* url.Parse, for the URL shapes of the model: a leading ":" is a missing
\* scheme, a "[" in the host without "]" is a malformed IPv6 literal; both
\* are errors and yield a nil *url.URL.
ParseUrl(s) ==
  IF s # << >> /\ s[1] = ":" THEN Nil
  ELSE IF Len(s) >= 2 /\ s[2] = "://" THEN
         LET rest == SubSeq(s, 3, Len(s))
             slash == IndexOf(rest, "/", 1)
             host == IF slash = 0 THEN rest ELSE SubSeq(rest, 1, slash - 1)
             path == IF slash = 0 THEN << >> ELSE SubSeq(rest, slash, Len(rest))
         IN IF Contains(host, "[") /\ ~Contains(host, "]") THEN Nil
            ELSE Ptr([Scheme |-> <<s[1]>>, Host |-> host, Path |-> path])
  ELSE Ptr([Scheme |-> << >>, Host |-> << >>, Path |-> s])

\* (*url.URL).String, for the same shapes.
UrlString(u) ==
  IF u.Scheme = << >> THEN u.Path
  ELSE u.Scheme \o <<"://">> \o u.Host \o u.Path

\* Variant of fromEnvOrDefault in the style of os.Getenv: an empty value
\* counts as absent.
fromEnvOrDefault_Getenv(e, key, def) ==
  IF e[key].val # EmptyStr THEN e[key].val ELSE def

\* fromEnvOrDefault(key, def) reading the environment e
fromEnvOrDefault(e, key, def) ==
  IF e[key].ok THEN e[key].val ELSE def

\* Variant of maybeIntercept matching on the path's beginning.
maybeIntercept_Prefix(path) ==
  IF Len(path) >= 4 /\ SubSeq(path, 1, 4) = <<"/", "js", "/", "server_connector.js">>
    THEN Ptr(Sprintf2(DefaultInterceptDir, path))
    ELSE Nil

\* maybeIntercept(path): a pointer to the replacement path, or nil
maybeIntercept(path) ==
  IF path = <<"/", "js", "/", "server_connector.js">>
    THEN Ptr(Sprintf2(DefaultInterceptDir, path))
    ELSE Nil

\* ------------------------------------------------------------------ router
Handler(type, target, root) == [type |-> type, target |-> target, root |-> root]
Route(owner, kind, path, handler) ==
  [owner |-> owner, kind |-> kind, path |-> path, handler |-> handler]

\* Routes of operator.CreateHttpHandlers (liboperator, outside this file).
BaseRoutes ==
  << Route("base", "path", <<"/", "infra_config">>, Handler("base", Nil, EmptyStr)),
     Route("base", "prefix", <<"/", "devices">>, Handler("base", Nil, EmptyStr)) >>

\* Routes of orchestrator.Controller.AddRoutes (outside this file).
ControllerRoutes ==
  << Route("controller", "path", <<"/", "cvds">>, Handler("controller", Nil, EmptyStr)),
     Route("controller", "path", <<"/", "operations">>, Handler("controller", Nil, EmptyStr)) >>

IsPrefix(p, s) == Len(p) <= Len(s) /\ SubSeq(s, 1, Len(p)) = p

RouteMatches(route, path) ==
  IF route.kind = "path" THEN route.path = path ELSE IsPrefix(route.path, path)

\* mux.Router dispatch: the first registered route that matches, 0 if none.
RECURSIVE FirstMatch(_, _, _)
FirstMatch(r, path, i) ==
  IF i > Len(r) THEN 0
  ELSE IF RouteMatches(r[i], path) THEN i ELSE FirstMatch(r, path, i + 1)

Dispatch(r, path) == FirstMatch(r, path, 1)

\* Request paths used to probe the router.
RequestPaths ==
  { <<"/", "dashboard">>, <<"/">>, <<"/", "cvds">>, <<"/", "operations">>,
    <<"/", "infra_config">>, <<"/", "devices", "/", "cvd-1">>, <<"/", "cvds", "/", "x">> }

\* ---------------------------------------------------------------- starters
Starter(kind, addr, cert, key) == [kind |-> kind, addr |-> addr, cert |-> cert, key |-> key]

\* Starters a direct caller of start() may pass: serving loops, and plain
\* functions that may also return nil.
CallerStarters == { Starter("server", EmptyStr, EmptyStr, EmptyStr),
                    Starter("func", EmptyStr, EmptyStr, EmptyStr) }

\* main.go:54, 59: http.ListenAndServe and http.ListenAndServeTLS always
\* return a non-nil error.
ListenAndServeReturnsNil == FALSE

\* The function operator.SetupDeviceEndpoint returns (outside this file) is
\* a serving loop: it runs forever or returns an error.
DeviceEndpointReturnsNil == FALSE

\* Whether starter s can return nil.
MayReturnNil(s) ==
  CASE s.kind \in {"http", "https"} -> ListenAndServeReturnsNil
    [] s.kind = "socket" -> DeviceEndpointReturnsNil
    [] s.kind = "server" -> FALSE
    [] OTHER -> TRUE

\* ------------------------------------------------------------------- state
VARIABLES
  entry,            \* "main": the program; "start": start() called directly
  env,              \* the process environment
  pc,               \* position of the coordinating routine
  cfg,              \* main's resolved string locals
  built,            \* subsystems constructed so far
  imPaths,          \* orchestrator.IMPaths
  uamOpts,          \* orchestrator.UserArtifactsManagerOpts
  debugStaticVars,  \* debug.StaticVariables
  imController,     \* orchestrator.Controller
  router,           \* r: the mux router, routes in registration order
  mux,              \* http.DefaultServeMux registrations
  starters,         \* the slice handed to start()
  wg,               \* the WaitGroup counter
  next,             \* index of the range loop in start()
  unit,             \* position of each goroutine
  unitF,            \* the starter each goroutine was given as f
  st,               \* lifecycle of each starter
  calls,            \* number of invocations of each starter
  dones,            \* number of wg.Done() calls of each goroutine
  proc,             \* process outcome
  icall             \* device-file requests calling the interception rule

vars == << entry, env, pc, cfg, built, imPaths, uamOpts, debugStaticVars,
           imController, router, mux, starters, wg, next, unit, unitF, st,
           calls, dones, proc, icall >>

mainVars == << cfg, built, imPaths, uamOpts, debugStaticVars, imController, router, mux >>
unitVars == << unit, unitF, st, calls, dones >>

ZeroCfg ==
  [ socketPath |-> EmptyStr, httpPort |-> EmptyStr, httpsPort |-> EmptyStr,
    tlsCertDir |-> EmptyStr, webUIUrlStr |-> EmptyStr, certPath |-> EmptyStr,
    keyPath |-> EmptyStr, cvdUser |-> EmptyStr, abURL |-> EmptyStr,
    cvdBinAndroidBuildID |-> EmptyStr, cvdBinAndroidBuildTarget |-> EmptyStr,
    imRootDir |-> EmptyStr ]

ZeroPaths ==
  [ RootDir |-> EmptyStr, CVDToolsDir |-> EmptyStr,
    ArtifactsRootDir |-> EmptyStr, RuntimesRootDir |-> EmptyStr ]

ZeroController ==
  [ Paths |-> ZeroPaths, CVDToolsVersion |-> [ID |-> EmptyStr, Target |-> EmptyStr],
    AndroidBuildServiceURL |-> EmptyStr, CVDUser |-> EmptyStr,
    WaitOperationMinutes |-> 0 ]

Running == [exited |-> FALSE, code |-> 0, cause |-> "none"]
Exited(code, cause) == [exited |-> TRUE, code |-> code, cause |-> cause]

\* Environments with the keys of S set and every other key unset.
EnvsSetting(S) ==
  { [k \in EnvKeys |-> IF k \in S THEN SetTo(f[k]) ELSE Unset] :
      f \in { g \in [S -> UNION { EnvValues(k) : k \in S }] :
                \A k \in S : g[k] \in EnvValues(k) } }

Envs ==
  UNION { EnvsSetting(S) : S \in { T \in SUBSET EnvKeys : Cardinality(T) <= MaxEnvVars } }

NoEnv == [k \in EnvKeys |-> Unset]

InitCommon ==
  /\ cfg = ZeroCfg
  /\ built = {}
  /\ imPaths = ZeroPaths
  /\ uamOpts = [RootDir |-> EmptyStr]
  /\ debugStaticVars = [InitialCVDBinAndroidBuildID |-> EmptyStr,
                        InitialCVDBinAndroidBuildTarget |-> EmptyStr]
  /\ imController = ZeroController
  /\ router = << >>
  /\ mux = << >>
  /\ wg = 0
  /\ next = 0
  /\ unit = << >>
  /\ unitF = << >>
  /\ st = << >>
  /\ calls = << >>
  /\ dones = << >>
  /\ proc = Running
  /\ icall = << >>

\* The program is started in some environment.
InitMain ==
  /\ entry = "main"
  /\ env \in Envs
  /\ pc = "resolve1"
  /\ starters = << >>
  /\ InitCommon

\* start() is called directly with up to MaxStarters starters.
InitStart ==
  /\ entry = "start"
  /\ env = NoEnv
  /\ pc = "start"
  /\ \E n \in 0..MaxStarters : starters \in [1..n -> CallerStarters]
  /\ InitCommon

Init == InitMain \/ InitStart

\* ------------------------------------------------------- main, sequential
\* main.go:100-107
ResolveListenConfig ==
  /\ ~proc.exited /\ pc = "resolve1"
  /\ LET tlsCertDir == fromEnvOrDefault(env, "ORCHESTRATOR_TLS_CERT_DIR", DefaultTLSCertDir)
     IN cfg' = [cfg EXCEPT
          !.socketPath = fromEnvOrDefault(env, "ORCHESTRATOR_SOCKET_PATH", DefaultSocketPath),
          !.httpPort = fromEnvOrDefault(env, "ORCHESTRATOR_HTTP_PORT", DefaultHttpPort),
          !.httpsPort = fromEnvOrDefault(env, "ORCHESTRATOR_HTTPS_PORT", EmptyStr),
          !.tlsCertDir = tlsCertDir,
          !.webUIUrlStr = fromEnvOrDefault(env, "ORCHESTRATOR_WEBUI_URL", DefaultWebUIUrl),
          !.certPath = Join(<<tlsCertDir, <<"cert.pem">> >>),
          !.keyPath = Join(<<tlsCertDir, <<"key.pem">> >>),
          !.cvdUser = fromEnvOrDefault(env, "ORCHESTRATOR_CVD_USER", EmptyStr)]
  /\ pc' = "pool"
  /\ UNCHANGED << entry, env, built, imPaths, uamOpts, debugStaticVars, imController,
                  router, mux, starters, wg, next, unitVars, proc, icall >>

\* main.go:109
NewDevicePool ==
  /\ ~proc.exited /\ pc = "pool"
  /\ built' = built \cup {"pool"}
  /\ pc' = "polled"
  /\ UNCHANGED << entry, env, cfg, imPaths, uamOpts, debugStaticVars, imController,
                  router, mux, starters, wg, next, unitVars, proc, icall >>

\* main.go:110-116
NewPolledSet ==
  /\ ~proc.exited /\ pc = "polled"
  /\ built' = built \cup {"polledSet"}
  /\ pc' = "resolve2"
  /\ UNCHANGED << entry, env, cfg, imPaths, uamOpts, debugStaticVars, imController,
                  router, mux, starters, wg, next, unitVars, proc, icall >>

\* main.go:117-126
ResolveBuildConfig ==
  /\ ~proc.exited /\ pc = "resolve2"
  /\ LET imRootDir == fromEnvOrDefault(env, "ORCHESTRATOR_CVD_ARTIFACTS_DIR", defaultCVDArtifactsDir)
     IN /\ cfg' = [cfg EXCEPT
             !.abURL = fromEnvOrDefault(env, "ORCHESTRATOR_ANDROID_BUILD_URL", defaultAndroidBuildURL),
             !.cvdBinAndroidBuildID =
                fromEnvOrDefault(env, "ORCHESTRATOR_CVDBIN_ANDROID_BUILD_ID", defaultCVDBinAndroidBuildID),
             !.cvdBinAndroidBuildTarget =
                fromEnvOrDefault(env, "ORCHESTRATOR_CVDBIN_ANDROID_BUILD_TARGET", defaultCVDBinAndroidBuildTarget),
             !.imRootDir = imRootDir]
        /\ imPaths' = [ RootDir |-> imRootDir,
                        CVDToolsDir |-> imRootDir,
                        ArtifactsRootDir |-> Join(<<imRootDir, <<"artifacts">> >>),
                        RuntimesRootDir |-> Join(<<imRootDir, <<"runtimes">> >>) ]
  /\ pc' = "om"
  /\ UNCHANGED << entry, env, built, uamOpts, debugStaticVars, imController,
                  router, mux, starters, wg, next, unitVars, proc, icall >>

\* main.go:127
NewMapOM ==
  /\ ~proc.exited /\ pc = "om"
  /\ built' = built \cup {"om"}
  /\ pc' = "uam"
  /\ UNCHANGED << entry, env, cfg, imPaths, uamOpts, debugStaticVars, imController,
                  router, mux, starters, wg, next, unitVars, proc, icall >>

\* main.go:128-132
NewUserArtifactsManager ==
  /\ ~proc.exited /\ pc = "uam"
  /\ uamOpts' = [RootDir |-> Join(<<cfg.imRootDir, <<"user_artifacs">> >>)]
  /\ built' = built \cup {"uam"}
  /\ pc' = "debugvars"
  /\ UNCHANGED << entry, env, cfg, imPaths, debugStaticVars, imController,
                  router, mux, starters, wg, next, unitVars, proc, icall >>

\* main.go:133-141
NewVariablesManager ==
  /\ ~proc.exited /\ pc = "debugvars"
  /\ debugStaticVars' = [InitialCVDBinAndroidBuildID |-> cfg.cvdBinAndroidBuildID,
                         InitialCVDBinAndroidBuildTarget |-> cfg.cvdBinAndroidBuildTarget]
  /\ built' = built \cup {"debugVarsManager"}
  /\ pc' = "handlers"
  /\ UNCHANGED << entry, env, cfg, imPaths, uamOpts, imController,
                  router, mux, starters, wg, next, unitVars, proc, icall >>

\* main.go:142
CreateHttpHandlers ==
  /\ ~proc.exited /\ pc = "handlers"
  /\ router' = BaseRoutes
  /\ pc' = "controller"
  /\ UNCHANGED << entry, env, cfg, built, imPaths, uamOpts, debugStaticVars, imController,
                  mux, starters, wg, next, unitVars, proc, icall >>

\* main.go:143-154
NewController ==
  /\ ~proc.exited /\ pc = "controller"
  /\ imController' = [ Paths |-> imPaths,
                       CVDToolsVersion |-> [ID |-> cfg.cvdBinAndroidBuildID,
                                            Target |-> cfg.cvdBinAndroidBuildTarget],
                       AndroidBuildServiceURL |-> cfg.abURL,
                       CVDUser |-> cfg.cvdUser,
                       WaitOperationMinutes |-> 2 ]
  /\ built' = built \cup {"controller"}
  /\ pc' = "addroutes"
  /\ UNCHANGED << entry, env, cfg, imPaths, uamOpts, debugStaticVars,
                  router, mux, starters, wg, next, unitVars, proc, icall >>

\* main.go:155
AddRoutes ==
  /\ ~proc.exited /\ pc = "addroutes"
  /\ router' = router \o ControllerRoutes
  /\ pc' = "catchall"
  /\ UNCHANGED << entry, env, cfg, built, imPaths, uamOpts, debugStaticVars, imController,
                  mux, starters, wg, next, unitVars, proc, icall >>

\* main.go:158-165: the handler main builds for everything else.  The error
\* of url.Parse is discarded, so the proxy is built on whatever it returned.
CatchAllHandler(webUIUrlStr) ==
  IF Len(webUIUrlStr) > 0
    THEN Handler("proxy", ParseUrl(webUIUrlStr), EmptyStr)
    ELSE Handler("fileserver", Nil, DefaultStaticFilesDir)

AddCatchAll ==
  /\ ~proc.exited /\ pc = "catchall"
  /\ router' = Append(router, Route("catchall", "prefix", <<"/">>, CatchAllHandler(cfg.webUIUrlStr)))
  /\ pc' = "handle"
  /\ UNCHANGED << entry, env, cfg, built, imPaths, uamOpts, debugStaticVars, imController,
                  mux, starters, wg, next, unitVars, proc, icall >>

\* main.go:160 on toolchains whose NewSingleHostReverseProxy reads the
\* target when the proxy is built: a nil target is a nil dereference.
CatchAllPanic ==
  /\ ~proc.exited /\ pc = "catchall"
  /\ Len(cfg.webUIUrlStr) > 0 /\ ParseUrl(cfg.webUIUrlStr).isNil
  /\ proc' = Exited(2, "panic")
  /\ UNCHANGED << entry, env, pc, mainVars, starters, wg, next, unitVars, icall >>

\* Variant of HttpHandle that leaves the router off the default mux.
HttpHandle_Forgotten ==
  /\ ~proc.exited /\ pc = "handle"
  /\ pc' = "starters"
  /\ UNCHANGED << entry, env, mainVars, starters, wg, next, unitVars, proc, icall >>

\* main.go:166
HttpHandle ==
  /\ ~proc.exited /\ pc = "handle"
  /\ mux' = Append(mux, [pattern |-> <<"/">>, handler |-> "r"])
  /\ pc' = "starters"
  /\ UNCHANGED << entry, env, cfg, built, imPaths, uamOpts, debugStaticVars, imController,
                  router, starters, wg, next, unitVars, proc, icall >>

\* Variant of MainStarters that appends the HTTPS starter unconditionally.
MainStarters_AlwaysHttps(c) ==
  << Starter("socket", c.socketPath, EmptyStr, EmptyStr),
     Starter("http", c.httpPort, EmptyStr, EmptyStr),
     Starter("https", c.httpsPort, c.certPath, c.keyPath) >>

\* main.go:168-174
MainStarters(c) ==
  LET base == << Starter("socket", c.socketPath, EmptyStr, EmptyStr),
                 Starter("http", c.httpPort, EmptyStr, EmptyStr) >>
  IN IF c.httpsPort # EmptyStr
       THEN Append(base, Starter("https", c.httpsPort, c.certPath, c.keyPath))
       ELSE base

BuildStarters ==
  /\ ~proc.exited /\ pc = "starters"
  /\ starters' = MainStarters(cfg)
  /\ pc' = "start"
  /\ UNCHANGED << entry, env, mainVars, wg, next, unitVars, proc, icall >>

\* ------------------------------------------------------------ start()
NotStartedAll(n) == [i \in 1..n |-> "NotStarted"]

\* Variant of WgAdd that adds one to the counter whatever the slice's length.
WgAdd_One ==
  /\ ~proc.exited /\ pc = "start"
  /\ wg' = wg + 1
  /\ next' = 1
  /\ unit' = [i \in 1..Len(starters) |-> "none"]
  /\ unitF' = [i \in 1..Len(starters) |-> 0]
  /\ st' = NotStartedAll(Len(starters))
  /\ calls' = [i \in 1..Len(starters) |-> 0]
  /\ dones' = [i \in 1..Len(starters) |-> 0]
  /\ pc' = IF Len(starters) = 0 THEN "wait" ELSE "loop"
  /\ UNCHANGED << entry, env, mainVars, starters, proc, icall >>

\* main.go:86-87: wg.Add(len(starters)); the loop variables come to life.
WgAdd ==
  /\ ~proc.exited /\ pc = "start"
  /\ wg' = wg + Len(starters)
  /\ next' = 1
  /\ unit' = [i \in 1..Len(starters) |-> "none"]
  /\ unitF' = [i \in 1..Len(starters) |-> 0]
  /\ st' = NotStartedAll(Len(starters))
  /\ calls' = [i \in 1..Len(starters) |-> 0]
  /\ dones' = [i \in 1..Len(starters) |-> 0]
  /\ pc' = IF Len(starters) = 0 THEN "wait" ELSE "loop"
  /\ UNCHANGED << entry, env, mainVars, starters, proc, icall >>

\* Variant of Launch whose goroutine closes over the loop variable and so
\* runs the slice's last starter.
Launch_SharedLoopVar ==
  /\ ~proc.exited /\ pc = "loop" /\ next <= Len(starters)
  /\ unit' = [unit EXCEPT ![next] = "spawned"]
  /\ unitF' = [unitF EXCEPT ![next] = Len(starters)]
  /\ next' = next + 1
  /\ pc' = IF next = Len(starters) THEN "wait" ELSE "loop"
  /\ UNCHANGED << entry, env, mainVars, starters, wg, st, calls, dones, proc, icall >>

\* main.go:88-95: one iteration of the range loop: the go statement hands
\* the current starter to a new goroutine as its argument f.
Launch ==
  /\ ~proc.exited /\ pc = "loop" /\ next <= Len(starters)
  /\ unit' = [unit EXCEPT ![next] = "spawned"]
  /\ unitF' = [unitF EXCEPT ![next] = next]
  /\ next' = next + 1
  /\ pc' = IF next = Len(starters) THEN "wait" ELSE "loop"
  /\ UNCHANGED << entry, env, mainVars, starters, wg, st, calls, dones, proc, icall >>

\* main.go:91: the goroutine calls f().
Invoke(i) ==
  /\ ~proc.exited /\ unit[i] = "spawned"
  /\ unit' = [unit EXCEPT ![i] = "in_f"]
  /\ st' = [st EXCEPT ![unitF[i]] = "Starting"]
  /\ calls' = [calls EXCEPT ![unitF[i]] = @ + 1]
  /\ UNCHANGED << entry, env, pc, mainVars, starters, wg, next, unitF, dones, proc, icall >>

\* main.go:50-67, 169: the listener is bound and f has entered its serving
\* loop, where it stays for the life of the process.
Serve(i) ==
  /\ ~proc.exited /\ unit[i] = "in_f" /\ st[unitF[i]] = "Starting"
  /\ st' = [st EXCEPT ![unitF[i]] = "Serving"]
  /\ UNCHANGED << entry, env, pc, mainVars, starters, wg, next, unit, unitF, calls, dones, proc, icall >>

\* main.go:91: f() returns a non-nil error.
ReturnErr(i) ==
  /\ ~proc.exited /\ unit[i] = "in_f" /\ st[unitF[i]] = "Starting"
  /\ st' = [st EXCEPT ![unitF[i]] = "Failed"]
  /\ unit' = [unit EXCEPT ![i] = "err"]
  /\ UNCHANGED << entry, env, pc, mainVars, starters, wg, next, unitF, calls, dones, proc, icall >>

\* main.go:91: f() returns nil.
ReturnNil(i) ==
  /\ ~proc.exited /\ unit[i] = "in_f" /\ st[unitF[i]] \in {"Starting", "Serving"}
  /\ MayReturnNil(starters[unitF[i]])
  /\ st' = [st EXCEPT ![unitF[i]] = "Returned"]
  /\ unit' = [unit EXCEPT ![i] = "ret"]
  /\ UNCHANGED << entry, env, pc, mainVars, starters, wg, next, unitF, calls, dones, proc, icall >>

\* Variant of Fatal that only logs the error: the goroutine's function
\* then ends and its deferred wg.Done() runs.
Fatal_LogOnly(i) ==
  /\ ~proc.exited /\ unit[i] = "err"
  /\ unit' = [unit EXCEPT ![i] = "ret"]
  /\ UNCHANGED << entry, env, pc, mainVars, starters, wg, next, unitF, st, calls, dones, proc, icall >>

\* main.go:92: log.Fatal(err): the process exits with status 1; deferred
\* calls do not run.
Fatal(i) ==
  /\ ~proc.exited /\ unit[i] = "err"
  /\ proc' = Exited(1, "listener")
  /\ UNCHANGED << entry, env, pc, mainVars, starters, wg, next, unitVars, icall >>

\* main.go:90: the deferred wg.Done() when the goroutine's function ends.
\* A counter that would go negative panics.
Done(i) ==
  /\ ~proc.exited /\ unit[i] = "ret"
  /\ unit' = [unit EXCEPT ![i] = "end"]
  /\ dones' = [dones EXCEPT ![i] = @ + 1]
  /\ IF wg > 0
       THEN wg' = wg - 1 /\ proc' = proc
       ELSE wg' = wg /\ proc' = Exited(2, "wgpanic")
  /\ UNCHANGED << entry, env, pc, mainVars, starters, next, unitF, st, calls, icall >>

\* main.go:96 and 175-176: wg.Wait() returns once the counter is zero, and
\* start() returns; in the program main then returns and the process exits
\* with status 0.
WaitReturn ==
  /\ ~proc.exited /\ pc = "wait" /\ wg = 0
  /\ pc' = "returned"
  /\ proc' = IF entry = "main" THEN Exited(0, "main returned") ELSE proc
  /\ UNCHANGED << entry, env, mainVars, starters, wg, next, unitVars, icall >>

Units == 1..Len(unit)

Supervise ==
  \/ WgAdd
  \/ Launch
  \/ \E i \in Units : Invoke(i)
  \/ \E i \in Units : Serve(i)
  \/ \E i \in Units : ReturnErr(i)
  \/ \E i \in Units : ReturnNil(i)
  \/ \E i \in Units : Fatal(i)
  \/ \E i \in Units : Done(i)
  \/ WaitReturn

Compose ==
  \/ ResolveListenConfig
  \/ NewDevicePool
  \/ NewPolledSet
  \/ ResolveBuildConfig
  \/ NewMapOM
  \/ NewUserArtifactsManager
  \/ NewVariablesManager
  \/ CreateHttpHandlers
  \/ NewController
  \/ AddRoutes
  \/ AddCatchAll
  \/ CatchAllPanic
  \/ HttpHandle
  \/ BuildStarters

Next == Compose \/ Supervise

Spec == Init /\ [][Next]_vars

\* start() alone, with the scheduler's fairness: a goroutine that can take
\* a step eventually takes it.
StartFairness ==
  /\ WF_vars(WgAdd) /\ WF_vars(Launch) /\ WF_vars(WaitReturn)
  /\ \A i \in 1..MaxStarters :
       /\ WF_vars(i \in Units /\ Invoke(i))
       /\ WF_vars(i \in Units /\ Fatal(i))
       /\ WF_vars(i \in Units /\ Done(i))

StartSpec == InitStart /\ [][Supervise]_vars /\ StartFairness

\* ------------------------------------------- the interception rule in use
\* Paths of device-file requests: the intercepted path and its neighbours.
InterceptPaths ==
  LET t == <<"/", "js", "/", "server_connector.js">>
  IN { t, EmptyStr, t \o <<"?x=1">>, t \o <<"/">>, t \o <<".map">>,
       SubSeq(t, 1, 3), SubSeq(t, 2, 4), <<"/">> \o t, DefaultInterceptDir \o t,
       <<"/", "JS", "/", "server_connector.js">>,
       <<"/", "js", "/", "Server_Connector.js">>,
       <<"/", "js", "/", "client.js">> }

IdleCall == [phase |-> "idle", path |-> EmptyStr, alt |-> Nil]

\* The listeners are serving; no request is in progress.
InitIntercept ==
  /\ entry = "serving"
  /\ env = NoEnv
  /\ pc = "wait"
  /\ starters = << >>
  /\ cfg = ZeroCfg /\ built = {} /\ imPaths = ZeroPaths
  /\ uamOpts = [RootDir |-> EmptyStr]
  /\ debugStaticVars = [InitialCVDBinAndroidBuildID |-> EmptyStr,
                        InitialCVDBinAndroidBuildTarget |-> EmptyStr]
  /\ imController = ZeroController
  /\ router = << >> /\ mux = << >>
  /\ wg = 0 /\ next = 0
  /\ unit = << >> /\ unitF = << >> /\ st = << >> /\ calls = << >> /\ dones = << >>
  /\ proc = Running
  /\ icall = [c \in 1..NumCallers |-> IdleCall]

\* A device-file request for path arrives on handler goroutine c.
Request(c, path) ==
  /\ icall[c].phase = "idle"
  /\ icall' = [icall EXCEPT ![c] = [phase |-> "called", path |-> path, alt |-> Nil]]
  /\ UNCHANGED << entry, env, pc, mainVars, starters, wg, next, unitVars, proc >>

\* main.go:77-83: the handler calls maybeIntercept on the request's path.
Intercept(c) ==
  /\ icall[c].phase = "called"
  /\ icall' = [icall EXCEPT ![c] = [@ EXCEPT !.phase = "answered",
                                             !.alt = maybeIntercept(icall[c].path)]]
  /\ UNCHANGED << entry, env, pc, mainVars, starters, wg, next, unitVars, proc >>

\* The request is done.
Respond(c) ==
  /\ icall[c].phase = "answered"
  /\ icall' = [icall EXCEPT ![c] = IdleCall]
  /\ UNCHANGED << entry, env, pc, mainVars, starters, wg, next, unitVars, proc >>

NextIntercept ==
  \/ \E c \in 1..NumCallers, path \in InterceptPaths : Request(c, path)
  \/ \E c \in 1..NumCallers : Intercept(c)
  \/ \E c \in 1..NumCallers : Respond(c)

InterceptSpec == InitIntercept /\ [][NextIntercept]_vars

\* -------------------------------------------------------------- properties
Starters == 1..Len(st)
InProgram == entry = "main"
StartEntered == pc \in {"loop", "wait", "returned"}
StartersBuilt == pc \in {"start", "loop", "wait", "returned"}
RouterComposed == pc \in {"handle", "starters", "start", "loop", "wait", "returned"}
AnyLaunched == \E i \in Units : unit[i] # "none"
AnyFailed == \E s \in Starters : st[s] = "Failed"
Aborted == proc.exited /\ proc.code # 0

\* C1: a starter that has returned an error is never followed by anything
\* but the abort of the process (its goroutine's only step is log.Fatal,
\* whatever the other starters are doing), and under fair scheduling a
\* failure leads to the process having exited with a non-zero status.
C1_FailFast ==
  /\ [](\A s \in Starters :
          st[s] = "Failed" =>
            \/ Aborted
            \/ /\ pc # "returned"
               /\ \E i \in Units : unitF[i] = s /\ unit[i] = "err")
  /\ (AnyFailed ~> Aborted)

C1_Witness ==
  /\ entry = "start" /\ Len(st) = 3
  /\ proc = Exited(1, "listener")
  /\ st[1] = "Serving" /\ st[2] = "Failed" /\ st[3] = "Serving"

\* C2: the slice main hands to start() holds the control-socket starter on
\* the resolved socket path, the HTTP starter on the resolved HTTP port, and
\* the HTTPS starter exactly when the resolved HTTPS port is non-empty; with
\* ORCHESTRATOR_HTTPS_PORT unset or empty no HTTPS starter exists.
C2_StarterSet ==
  (InProgram /\ StartersBuilt) =>
    LET S == { starters[i] : i \in 1..Len(starters) }
        https == Starter("https", cfg.httpsPort, cfg.certPath, cfg.keyPath)
    IN /\ Starter("socket", cfg.socketPath, EmptyStr, EmptyStr) \in S
       /\ Starter("http", cfg.httpPort, EmptyStr, EmptyStr) \in S
       /\ (https \in S) <=> (cfg.httpsPort # EmptyStr)
       /\ Len(starters) = IF cfg.httpsPort # EmptyStr THEN 3 ELSE 2
       /\ (~env["ORCHESTRATOR_HTTPS_PORT"].ok \/ env["ORCHESTRATOR_HTTPS_PORT"].val = EmptyStr)
            => \A i \in 1..Len(starters) : starters[i].kind # "https"

C2_Witness ==
  /\ InProgram /\ pc = "wait"
  /\ env["ORCHESTRATOR_HTTP_PORT"] = SetTo(<<"9000">>)
  /\ ~env["ORCHESTRATOR_HTTPS_PORT"].ok
  /\ Len(st) = 2 /\ starters[2].addr = <<"9000">>
  /\ \A s \in Starters : st[s] = "Serving"

\* C3: every key main resolves comes out as its default when the key is
\* unset and as the key's value, the empty string included, when it is set.
Resolved(key, def, got) ==
  /\ ~env[key].ok => got = def
  /\ \A v \in EnvValues(key) : env[key] = SetTo(v) => got = v

C3_Resolution ==
  /\ (InProgram /\ pc # "resolve1") =>
       /\ Resolved("ORCHESTRATOR_SOCKET_PATH", DefaultSocketPath, cfg.socketPath)
       /\ Resolved("ORCHESTRATOR_HTTP_PORT", DefaultHttpPort, cfg.httpPort)
       /\ Resolved("ORCHESTRATOR_HTTPS_PORT", EmptyStr, cfg.httpsPort)
       /\ Resolved("ORCHESTRATOR_TLS_CERT_DIR", DefaultTLSCertDir, cfg.tlsCertDir)
       /\ Resolved("ORCHESTRATOR_WEBUI_URL", EmptyStr, cfg.webUIUrlStr)
       /\ Resolved("ORCHESTRATOR_CVD_USER", EmptyStr, cfg.cvdUser)
  /\ (InProgram /\ pc \notin {"resolve1", "pool", "polled", "resolve2"}) =>
       /\ Resolved("ORCHESTRATOR_ANDROID_BUILD_URL", defaultAndroidBuildURL, cfg.abURL)
       /\ Resolved("ORCHESTRATOR_CVDBIN_ANDROID_BUILD_ID", defaultCVDBinAndroidBuildID,
                   cfg.cvdBinAndroidBuildID)
       /\ Resolved("ORCHESTRATOR_CVDBIN_ANDROID_BUILD_TARGET", defaultCVDBinAndroidBuildTarget,
                   cfg.cvdBinAndroidBuildTarget)
       /\ Resolved("ORCHESTRATOR_CVD_ARTIFACTS_DIR", defaultCVDArtifactsDir, cfg.imRootDir)

C3_Witness ==
  /\ InProgram /\ pc = "om"
  /\ env["ORCHESTRATOR_HTTP_PORT"] = SetTo(EmptyStr) /\ cfg.httpPort = EmptyStr
  /\ env["ORCHESTRATOR_CVD_ARTIFACTS_DIR"] = SetTo(<<"/", "data">>)
  /\ cfg.imRootDir = <<"/", "data">>
  /\ cfg.socketPath = DefaultSocketPath

\* C4: every answer of the interception rule is the replacement
\* intercept/js/server_connector.js for the path /js/server_connector.js and
\* nil for any other path, whichever request asks and whatever the other
\* requests are doing.
C4_InterceptExact ==
  \A c \in DOMAIN icall :
    icall[c].phase = "answered" =>
      IF icall[c].path = <<"/", "js", "/", "server_connector.js">>
        THEN /\ ~icall[c].alt.isNil
             /\ icall[c].alt.val = <<"intercept", "/", "js", "/", "server_connector.js">>
        ELSE icall[c].alt.isNil

C4_Witness ==
  /\ entry = "serving"
  /\ icall[1].phase = "answered"
  /\ icall[1].path = <<"/", "js", "/", "server_connector.js">>
  /\ ~icall[1].alt.isNil
  /\ icall[2].phase = "answered"
  /\ icall[2].path = <<"/", "js", "/", "server_connector.js", "?x=1">>
  /\ icall[2].alt.isNil

\* C5: with R the resolved artifact root, the tools directory is R, the
\* artifacts directory R/artifacts, the runtimes directory R/runtimes and
\* the user-artifact manager's root R/user_artifacts.
C5_DerivedDirs ==
  (InProgram /\ "uam" \in built) =>
    /\ imPaths.RootDir = cfg.imRootDir
    /\ imPaths.CVDToolsDir = cfg.imRootDir
    /\ imPaths.ArtifactsRootDir = Join(<<cfg.imRootDir, <<"artifacts">> >>)
    /\ imPaths.RuntimesRootDir = Join(<<cfg.imRootDir, <<"runtimes">> >>)
    /\ uamOpts.RootDir = Join(<<cfg.imRootDir, <<"user_artifacts">> >>)

\* C6: once the router is composed it holds exactly one catch-all route, the
\* last one; its handler is a reverse proxy to the web-UI URL when that URL
\* is non-empty and a file server on the static directory otherwise; a path
\* matching a control-plane or controller route is served by that route and
\* any other path by the catch-all.
C6_CatchAll ==
  (InProgram /\ RouterComposed) =>
    LET last == router[Len(router)]
        h == last.handler
    IN /\ Cardinality({ i \in 1..Len(router) : router[i].owner = "catchall" }) = 1
       /\ last.owner = "catchall"
       /\ IF cfg.webUIUrlStr # EmptyStr
            THEN /\ h.type = "proxy"
                 /\ ~h.target.isNil
                 /\ UrlString(h.target.val) = cfg.webUIUrlStr
            ELSE h.type = "fileserver" /\ h.root = DefaultStaticFilesDir
       /\ \A p \in RequestPaths :
            LET d == Dispatch(router, p)
                named == \E i \in 1..(Len(router) - 1) : RouteMatches(router[i], p)
            IN /\ d # 0
               /\ named => router[d].owner # "catchall"
               /\ ~named => d = Len(router)

\* C7: the program never exits with success: an exit has a non-zero status,
\* start() never returns to main, and an exit after start() was entered is
\* the abort caused by a failed listener.
C7_NoSuccessfulExit ==
  InProgram =>
    /\ proc.exited => proc.code # 0
    /\ pc # "returned"
    /\ (proc.exited /\ StartEntered) =>
         proc = Exited(1, "listener") /\ AnyFailed

C7_Witness ==
  /\ InProgram /\ Len(st) = 3
  /\ proc = Exited(1, "listener")
  /\ st[1] = "Serving" /\ st[2] = "Serving" /\ st[3] = "Failed"

\* C8: every starter is invoked at most once, and exactly once when every
\* goroutine has run; no two goroutines run the same starter; a serving-loop
\* starter only moves NotStarted -> Starting -> Serving or NotStarted ->
\* Starting -> Failed (a plain function may besides return nil), and no
\* starter ever moves back to NotStarted or is invoked again after failing.
LifecycleSteps(s) ==
  { <<"NotStarted", "Starting">>, <<"Starting", "Serving">>, <<"Starting", "Failed">> }
    \cup (IF MayReturnNil(starters[s])
            THEN { <<"Starting", "Returned">>, <<"Serving", "Returned">> }
            ELSE {})

Leaves == {"pool", "polledSet", "om", "uam", "debugVarsManager"}

CompositionComplete ==
  /\ Len(router) = Len(BaseRoutes) + Len(ControllerRoutes) + 1
  /\ router[Len(router)].owner = "catchall"
  /\ mux = << [pattern |-> <<"/">>, handler |-> "r"] >>

C10_WaitsForAll ==
  /\ [](/\ wg >= 0
        /\ proc.cause # "wgpanic"
        /\ \A i \in Units : dones[i] <= 1
        /\ StartEntered => wg = Cardinality({ i \in Units : dones[i] = 0 })
        /\ pc = "returned" =>
             /\ \A s \in Starters : st[s] = "Returned"
             /\ \A i \in Units : unit[i] = "end" /\ dones[i] = 1
        /\ \A i \in Units : unit[i] = "err" => dones[i] = 0
        /\ AnyFailed => pc # "returned")
  /\ ((pc = "start" /\ Len(starters) = 0) ~> (pc = "returned"))

C10_Witness ==
  /\ entry = "start" /\ pc = "returned" /\ Len(starters) = 3
  /\ \A i \in Units : dones[i] = 1

====
